---- MODULE Spec2Model ----
(***************************************************************************)
(* Verification model of the chess-api game service: the game record, the  *)
(* move transition (chess_logic.validate_and_make_move and the inline copy *)
(* in main.make_move), and the two stores (JSON files, Redis).             *)
(*                                                                         *)
(* The chess rules library (python-chess) is modelled by what the calls    *)
(* made by the service do: chess.Board(fen), board.turn, Move.from_uci,    *)
(* board.legal_moves, board.push, board.fen and the five status tests.     *)
(* Text that the code inspects character by character (move strings, the   *)
(* messages of the library's ValueError) is a sequence of one-character    *)
(* strings.                                                                *)
(***************************************************************************)
EXTENDS Integers, Sequences, FiniteSets, TLC

(***************************************************************************)
(* Squares, pieces                                                         *)
(***************************************************************************)
WHITE == TRUE
BLACK == FALSE

Squares == 0..63
square_file(s) == s % 8
square_rank(s) == s \div 8
square(f, r) == r * 8 + f

Abs(n) == IF n < 0 THEN -n ELSE n
Sgn(n) == IF n < 0 THEN -1 ELSE IF n > 0 THEN 1 ELSE 0
Max(a, b) == IF a < b THEN b ELSE a

Empty == "."
WhiteSymbols == {"P", "N", "B", "R", "Q", "K"}
BlackSymbols == {"p", "n", "b", "r", "q", "k"}

\* piece type of a piece symbol (PIECE_SYMBOLS are the lower-case letters)
piece_type(sym) ==
    CASE sym \in {"P", "p"} -> "p"
      [] sym \in {"N", "n"} -> "n"
      [] sym \in {"B", "b"} -> "b"
      [] sym \in {"R", "r"} -> "r"
      [] sym \in {"Q", "q"} -> "q"
      [] sym \in {"K", "k"} -> "k"
      [] OTHER -> ""

piece_symbol(type, color) ==
    IF color = BLACK THEN type
    ELSE CASE type = "p" -> "P" [] type = "n" -> "N" [] type = "b" -> "B"
           [] type = "r" -> "R" [] type = "q" -> "Q" [] type = "k" -> "K"

occupied_co(pieces, color, s) ==
    IF color = WHITE THEN pieces[s] \in WhiteSymbols ELSE pieces[s] \in BlackSymbols

\* squares strictly between a and s on a common rank, file or diagonal are empty
PathClear(pieces, a, s) ==
    LET df == square_file(s) - square_file(a)
        dr == square_rank(s) - square_rank(a)
        n  == Max(Abs(df), Abs(dr))
    IN  \A k \in 1..(n - 1) :
            pieces[square(square_file(a) + k * Sgn(df), square_rank(a) + k * Sgn(dr))] = Empty

\* the piece standing on a attacks s (Board.attacks_mask)
Attacks(pieces, a, s) ==
    LET df == square_file(s) - square_file(a)
        dr == square_rank(s) - square_rank(a)
        t  == piece_type(pieces[a])
        diag == Abs(df) = Abs(dr) /\ df # 0
        line == (df = 0) # (dr = 0)
    IN  CASE t = "p" -> Abs(df) = 1 /\ dr = (IF pieces[a] = "P" THEN 1 ELSE -1)
          [] t = "n" -> {Abs(df), Abs(dr)} = {1, 2}
          [] t = "k" -> Max(Abs(df), Abs(dr)) = 1
          [] t = "b" -> diag /\ PathClear(pieces, a, s)
          [] t = "r" -> line /\ PathClear(pieces, a, s)
          [] t = "q" -> (diag \/ line) /\ PathClear(pieces, a, s)
          [] OTHER -> FALSE

\* Board.is_attacked_by
is_attacked_by(pieces, color, s) ==
    \E a \in Squares : occupied_co(pieces, color, a) /\ Attacks(pieces, a, s)

KingSquares(pieces, color) == {s \in Squares : pieces[s] = piece_symbol("k", color)}

\* the king of color stands attacked
KingAttacked(pieces, color) ==
    \E k \in KingSquares(pieces, color) : is_attacked_by(pieces, ~color, k)

(***************************************************************************)
(* Moves                                                                   *)
(***************************************************************************)
NoPromotion == ""

\* chess.Move: from_square, to_square, promotion, drop
Move(f, t, p) == [from_square |-> f, to_square |-> t, promotion |-> p, drop |-> ""]

\* bool(move): the null move 0000 is falsy
MoveIsNull(m) ==
    m.from_square = 0 /\ m.to_square = 0 /\ m.promotion = NoPromotion /\ m.drop = ""

E1 == 4
E8 == 60

\* Board.clean_castling_rights: a right is the corner square of a rook that
\* still stands there, with its king on the e-file home square
clean_castling_rights(b) ==
    {r \in b.castling_rights :
        \/ r \in {0, 7}   /\ b.pieces[r] = "R" /\ b.pieces[E1] = "K"
        \/ r \in {56, 63} /\ b.pieces[r] = "r" /\ b.pieces[E8] = "k"}

\* Board.generate_castling_moves, in the king-moves-two-squares form
IsCastling(b, m) ==
    LET home == IF b.turn = WHITE THEN E1 ELSE E8
        kingside == m.to_square = home + 2
        rook == IF kingside THEN home + 3 ELSE home - 4
        empties == IF kingside THEN {home + 1, home + 2}
                   ELSE {home - 1, home - 2, home - 3}
        kingpath == IF kingside THEN {home, home + 1, home + 2}
                    ELSE {home, home - 1, home - 2}
    IN  /\ m.from_square = home
        /\ m.to_square \in {home + 2, home - 2}
        /\ m.promotion = NoPromotion
        /\ b.pieces[home] = piece_symbol("k", b.turn)
        /\ rook \in clean_castling_rights(b)
        /\ \A s \in empties : b.pieces[s] = Empty
        /\ \A s \in kingpath : ~is_attacked_by(b.pieces, ~b.turn, s)

\* Board.generate_pseudo_legal_moves restricted to one pawn move
PawnPseudoLegal(b, m) ==
    LET f  == m.from_square
        t  == m.to_square
        up == IF b.turn = WHITE THEN 8 ELSE -8
        startrank == IF b.turn = WHITE THEN 1 ELSE 6
        lastrank  == IF b.turn = WHITE THEN 7 ELSE 0
        df == square_file(t) - square_file(f)
        capture == /\ Abs(df) = 1
                   /\ t - f = up + df
                   /\ \/ occupied_co(b.pieces, ~b.turn, t)
                      \/ t = b.ep_square /\ b.pieces[t] = Empty
        single == t = f + up /\ b.pieces[t] = Empty
        double == /\ t = f + 2 * up
                  /\ square_rank(f) = startrank
                  /\ b.pieces[f + up] = Empty
                  /\ b.pieces[t] = Empty
    IN  /\ capture \/ single \/ double
        /\ IF square_rank(t) = lastrank
           THEN m.promotion \in {"q", "r", "b", "n"}
           ELSE m.promotion = NoPromotion

\* Board.is_pseudo_legal
is_pseudo_legal(b, m) ==
    LET t == piece_type(b.pieces[m.from_square])
    IN  /\ ~MoveIsNull(m)
        /\ m.drop = ""
        /\ b.pieces[m.from_square] # Empty
        /\ occupied_co(b.pieces, b.turn, m.from_square)
        /\ m.promotion # NoPromotion =>
              /\ t = "p"
              /\ square_rank(m.to_square) = (IF b.turn = WHITE THEN 7 ELSE 0)
        /\ \/ t = "k" /\ IsCastling(b, m)
           \/ /\ ~occupied_co(b.pieces, b.turn, m.to_square)
              /\ IF t = "p" THEN PawnPseudoLegal(b, m)
                 ELSE Attacks(b.pieces, m.from_square, m.to_square)

\* the piece placement after the move (the placement part of Board.push)
PushPieces(b, m) ==
    LET f == m.from_square
        t == m.to_square
        sym == b.pieces[f]
        type == piece_type(sym)
        enpassant == /\ type = "p"
                     /\ t = b.ep_square
                     /\ Abs(t - f) \in {7, 9}
                     /\ b.pieces[t] = Empty
        castle == type = "k" /\ Abs(t - f) = 2 /\ square_rank(f) = square_rank(t)
        placed == IF m.promotion # NoPromotion
                  THEN piece_symbol(m.promotion, b.turn) ELSE sym
        down == IF b.turn = WHITE THEN -8 ELSE 8
        rookfrom == IF t > f THEN f + 3 ELSE f - 4
        rookto == IF t > f THEN f + 1 ELSE f - 1
    IN  [s \in Squares |->
            IF s = t THEN placed
            ELSE IF s = f THEN Empty
            ELSE IF enpassant /\ s = t + down THEN Empty
            ELSE IF castle /\ s = rookfrom THEN Empty
            ELSE IF castle /\ s = rookto THEN b.pieces[rookfrom]
            ELSE b.pieces[s]]

\* Board.is_into_check: the move leaves the mover's own king attacked
is_into_check(b, m) == KingAttacked(PushPieces(b, m), b.turn)

\* Board.is_legal, that is "move in board.legal_moves"
is_legal(b, m) == is_pseudo_legal(b, m) /\ ~is_into_check(b, m)

\* any(board.generate_legal_moves()); the promotion piece does not change
\* whether a pawn move to the last rank is legal
AnyLegalMove(b) ==
    \E f \in {s \in Squares : occupied_co(b.pieces, b.turn, s)} :
        \E t \in Squares :
            is_legal(b, Move(f, t,
                IF piece_type(b.pieces[f]) = "p" /\ square_rank(t) \in {0, 7}
                THEN "q" ELSE NoPromotion))

\* Board.is_check
is_check(b) == KingAttacked(b.pieces, b.turn)

\* Board.is_zeroing: pawn moves and captures reset the halfmove clock
is_zeroing(b, m) ==
    \/ piece_type(b.pieces[m.from_square]) = "p"
    \/ occupied_co(b.pieces, ~b.turn, m.to_square)

NoSquare == -1

\* Board.has_legal_en_passant
has_legal_en_passant(b) ==
    /\ b.ep_square # NoSquare
    /\ \E f \in Squares :
          /\ b.pieces[f] = piece_symbol("p", b.turn)
          /\ is_legal(b, Move(f, b.ep_square, NoPromotion))

\* Board._transposition_key: what the repetition test compares
transposition_key(b) ==
    [pieces |-> b.pieces, turn |-> b.turn,
     castling_rights |-> clean_castling_rights(b),
     ep_square |-> IF has_legal_en_passant(b) THEN b.ep_square ELSE NoSquare]

\* Board.push: the position after the move; the position left behind goes
\* on the stack that the repetition test walks
push(b, m) ==
    LET f == m.from_square
        t == m.to_square
        type == piece_type(b.pieces[f])
        rights == clean_castling_rights(b) \ {f, t}
        homerank == IF b.turn = WHITE THEN {0, 7} ELSE {56, 63}
    IN  [pieces |-> PushPieces(b, m),
         turn |-> ~b.turn,
         castling_rights |-> IF type = "k" THEN rights \ homerank ELSE rights,
         ep_square |-> IF type = "p" /\ t - f = 16 /\ square_rank(f) = 1 THEN f + 8
                       ELSE IF type = "p" /\ t - f = -16 /\ square_rank(f) = 6 THEN f - 8
                       ELSE NoSquare,
         halfmove_clock |-> IF is_zeroing(b, m) THEN 0 ELSE b.halfmove_clock + 1,
         fullmove_number |-> IF b.turn = BLACK THEN b.fullmove_number + 1
                             ELSE b.fullmove_number,
         stack |-> Append(b.stack, transposition_key(b))]

(***************************************************************************)
(* FEN: the six fields of the text.  chess.Board(fen) reads them into a    *)
(* board with an empty stack; board.fen() writes them back, with the en    *)
(* passant square only when an en passant capture is legal.                *)
(***************************************************************************)
BackRank == <<"r", "n", "b", "q", "k", "b", "n", "r">>

StartingPieces ==
    [s \in Squares |->
        CASE square_rank(s) = 0 -> piece_symbol(BackRank[square_file(s) + 1], WHITE)
          [] square_rank(s) = 1 -> "P"
          [] square_rank(s) = 6 -> "p"
          [] square_rank(s) = 7 -> BackRank[square_file(s) + 1]
          [] OTHER -> Empty]

\* chess.STARTING_FEN: rnbqkbnr/pppppppp/8/8/8/8/PPPPPPPP/RNBQKBNR w KQkq - 0 1
STARTING_FEN ==
    [placement |-> StartingPieces, turn |-> "w", castling |-> {0, 7, 56, 63},
     ep |-> NoSquare, halfmove |-> 0, fullmove |-> 1]

\* chess.Board(fen)
Board(fen) ==
    [pieces |-> fen.placement,
     turn |-> (fen.turn = "w"),
     castling_rights |-> fen.castling,
     ep_square |-> fen.ep,
     halfmove_clock |-> fen.halfmove,
     fullmove_number |-> fen.fullmove,
     stack |-> <<>>]

\* board.fen() with the side to move never written as Black
board_fen_white_to_move(b) ==
    [placement |-> b.pieces,
     turn |-> "w",
     castling |-> clean_castling_rights(b),
     ep |-> IF has_legal_en_passant(b) THEN b.ep_square ELSE NoSquare,
     halfmove |-> b.halfmove_clock,
     fullmove |-> b.fullmove_number]

\* board.fen()
board_fen(b) ==
    [placement |-> b.pieces,
     turn |-> IF b.turn = WHITE THEN "w" ELSE "b",
     castling |-> clean_castling_rights(b),
     ep |-> IF has_legal_en_passant(b) THEN b.ep_square ELSE NoSquare,
     halfmove |-> b.halfmove_clock,
     fullmove |-> b.fullmove_number]

(***************************************************************************)
(* Outcome tests of the library                                            *)
(***************************************************************************)
is_checkmate(b) == is_check(b) /\ ~AnyLegalMove(b)

is_stalemate(b) == ~is_check(b) /\ ~AnyLegalMove(b)

DarkSquare(s) == (square_file(s) + square_rank(s)) % 2 = 0

\* Board.has_insufficient_material
has_insufficient_material(b, color) ==
    LET own(types) == {s \in Squares : /\ occupied_co(b.pieces, color, s)
                                       /\ piece_type(b.pieces[s]) \in types}
        other(types) == {s \in Squares : /\ occupied_co(b.pieces, ~color, s)
                                         /\ piece_type(b.pieces[s]) \in types}
        any(types) == {s \in Squares : piece_type(b.pieces[s]) \in types}
        bishops == any({"b"})
    IN  IF own({"p", "r", "q"}) # {} THEN FALSE
        ELSE IF own({"n"}) # {}
        THEN /\ Cardinality(own({"p", "n", "b", "r", "q", "k"})) <= 2
             /\ other({"p", "n", "b", "r"}) = {}
        ELSE IF own({"b"}) # {}
        THEN /\ \/ \A s \in bishops : ~DarkSquare(s)
                \/ \A s \in bishops : DarkSquare(s)
             /\ any({"p"}) = {}
             /\ any({"n"}) = {}
        ELSE TRUE

is_insufficient_material(b) ==
    has_insufficient_material(b, WHITE) /\ has_insufficient_material(b, BLACK)

\* Board.is_repetition(5): the current position and four positions on the
\* board's own stack have the same transposition key
is_fivefold_repetition(b) ==
    LET same == {i \in 1..Len(b.stack) : b.stack[i] = transposition_key(b)}
    IN  Cardinality(same) + 1 >= 5

\* the halfmove count of the seventy-five-move rule (Board._is_halfmoves(150))
SeventyFiveMoves == 150

is_seventyfive_moves(b) == b.halfmove_clock >= SeventyFiveMoves /\ AnyLegalMove(b)

(***************************************************************************)
(* Text and Move.from_uci                                                  *)
(***************************************************************************)
\* needle in hay, both sequences of characters (Python's "in" on str)
Contains(needle, hay) ==
    \E i \in 1..(Len(hay) - Len(needle) + 1) :
        SubSeq(hay, i, i + Len(needle) - 1) = needle

\* repr(uci) of a string without quotes or escapes
Repr(uci) == <<"'">> \o uci \o <<"'">>

FileNames == <<"a", "b", "c", "d", "e", "f", "g", "h">>
RankNames == <<"1", "2", "3", "4", "5", "6", "7", "8">>

IndexIn(names, c) ==
    IF \E i \in 1..Len(names) : names[i] = c
    THEN (CHOOSE i \in 1..Len(names) : names[i] = c) - 1
    ELSE -1

\* SQUARE_NAMES.index(text): -1 stands for the ValueError of list.index
SquareIndex(text) ==
    LET f == IndexIn(FileNames, text[1])
        r == IndexIn(RankNames, text[2])
    IN  IF f < 0 \/ r < 0 THEN -1 ELSE square(f, r)

\* PIECE_SYMBOLS[1:], the letters from_uci accepts as a promotion or a drop
PIECE_SYMBOLS == {"p", "n", "b", "r", "q", "k"}

MsgInvalidUci == <<"i", "n", "v", "a", "l", "i", "d", " ", "u", "c", "i", ":", " ">>
MsgNullHint == <<"i", "n", "v", "a", "l", "i", "d", " ", "u", "c", "i", " ", "(", "u", "s", "e", " ", "0", "0", "0", "0", " ", "f", "o", "r", " ", "n", "u", "l", "l", " ", "m", "o", "v", "e", "s", ")", ":", " ">>
MsgLength == <<"e", "x", "p", "e", "c", "t", "e", "d", " ", "u", "c", "i", " ", "s", "t", "r", "i", "n", "g", " ", "t", "o", " ", "b", "e", " ", "o", "f", " ", "l", "e", "n", "g", "t", "h", " ", "4", " ", "o", "r", " ", "5", ":", " ">>

Parsed(m) == [ok |-> TRUE, move |-> m, message |-> <<>>]
ParseError(text) == [ok |-> FALSE, move |-> Move(0, 0, NoPromotion), message |-> text]

\* chess.Move.from_uci: the move, or the message of the ValueError it raises
from_uci(uci) ==
    IF uci = <<"0", "0", "0", "0">> THEN Parsed(Move(0, 0, NoPromotion))
    ELSE IF Len(uci) = 4 /\ uci[2] = "@"
    THEN LET drop == piece_type(uci[1])
             sq == SquareIndex(SubSeq(uci, 3, 4))
         IN  IF drop = "" \/ sq < 0 THEN ParseError(MsgInvalidUci \o Repr(uci))
             ELSE Parsed([from_square |-> sq, to_square |-> sq,
                          promotion |-> NoPromotion, drop |-> drop])
    ELSE IF Len(uci) \in {4, 5}
    THEN LET from_square == SquareIndex(SubSeq(uci, 1, 2))
             to_square == SquareIndex(SubSeq(uci, 3, 4))
             badpromo == Len(uci) = 5 /\ uci[5] \notin PIECE_SYMBOLS
         IN  IF from_square < 0 \/ to_square < 0 \/ badpromo
             THEN ParseError(MsgInvalidUci \o Repr(uci))
             ELSE IF from_square = to_square
             THEN ParseError(MsgNullHint \o Repr(uci))
             ELSE Parsed(Move(from_square, to_square,
                              IF Len(uci) = 5 THEN uci[5] ELSE NoPromotion))
    ELSE ParseError(MsgLength \o Repr(uci))

(***************************************************************************)
(* chess_logic.py                                                          *)
(***************************************************************************)
\* get_current_player with the turn ignored
get_current_player_white(board, white_player, black_player) == white_player

\* get_current_player
get_current_player(board, white_player, black_player) ==
    IF board.turn = WHITE THEN white_player ELSE black_player

\* get_game_status
get_game_status(board) ==
    IF is_checkmate(board) THEN "checkmate"
    ELSE IF is_stalemate(board) THEN "stalemate"
    ELSE IF is_insufficient_material(board) THEN "draw"
    ELSE IF is_fivefold_repetition(board) THEN "draw"
    ELSE IF is_seventyfive_moves(board) THEN "draw"
    ELSE "in_progress"

\* create_game_data with a second clock reading for updated_at
create_game_data_two_clocks(request, game_id, current_time) ==
    [id |-> game_id,
     white |-> request.white,
     black |-> request.black,
     fen |-> STARTING_FEN,
     moves |-> <<>>,
     status |-> "in_progress",
     created_at |-> current_time,
     updated_at |-> current_time + 1]

\* create_game_data: game_id is the fresh uuid, current_time the clock reading
create_game_data(request, game_id, current_time) ==
    [id |-> game_id,
     white |-> request.white,
     black |-> request.black,
     fen |-> board_fen(Board(STARTING_FEN)),
     moves |-> <<>>,
     status |-> "in_progress",
     created_at |-> current_time,
     updated_at |-> current_time]

\* the text the code looks for in the ValueError it caught
InvalidMoveText == <<"I", "n", "v", "a", "l", "i", "d", " ", "m", "o", "v", "e">>

Raised(detail, game_data) == [ok |-> FALSE, detail |-> detail, game_data |-> game_data]
Returned(game_data) == [ok |-> TRUE, detail |-> "", game_data |-> game_data]

\* the record written back, with the status left as it was
UpdatedGameData_stale_status(game_data, board, move_text, current_time) ==
    [game_data EXCEPT !.fen = board_fen(board),
                      !.moves = Append(@, move_text),
                      !.updated_at = current_time]

\* the record written back, with the move not appended
UpdatedGameData_no_append(game_data, board, move_text, current_time) ==
    [game_data EXCEPT !.fen = board_fen(board),
                      !.status = get_game_status(board),
                      !.updated_at = current_time]

\* the record written back, with created_at read from the clock again
UpdatedGameData_new_created_at(game_data, board, move_text, current_time) ==
    [game_data EXCEPT !.fen = board_fen(board),
                      !.moves = Append(@, move_text),
                      !.status = get_game_status(board),
                      !.created_at = current_time,
                      !.updated_at = current_time]

\* the record written back after board.push(move)
UpdatedGameData(game_data, board, move_text, current_time) ==
    [game_data EXCEPT !.fen = board_fen(board),
                      !.moves = Append(@, move_text),
                      !.status = get_game_status(board),
                      !.updated_at = current_time]

\* validate_and_make_move with every ValueError reported as a format error
validate_and_make_move_all_format(game_data, request, current_time) ==
    LET board == Board(game_data.fen)
        current_player == get_current_player(board, game_data.white, game_data.black)
        parsed == from_uci(request.move)
    IN  IF request.player # current_player THEN Raised("Not your turn", game_data)
        ELSE IF ~parsed.ok \/ ~is_legal(board, parsed.move)
        THEN Raised("Invalid move format", game_data)
        ELSE Returned(UpdatedGameData(game_data, push(board, parsed.move),
                                      request.move, current_time))

\* validate_and_make_move whose turn check turns away the opponent only
validate_and_make_move_opponent_check(game_data, request, current_time) ==
    LET board == Board(game_data.fen)
        opponent == get_current_player(board, game_data.black, game_data.white)
        parsed == from_uci(request.move)
        caught == IF ~parsed.ok THEN parsed.message ELSE InvalidMoveText
    IN  IF request.player = opponent THEN Raised("Not your turn", game_data)
        ELSE IF ~parsed.ok \/ ~is_legal(board, parsed.move)
        THEN IF Contains(InvalidMoveText, caught)
             THEN Raised("Invalid move", game_data)
             ELSE Raised("Invalid move format", game_data)
        ELSE Returned(UpdatedGameData(game_data, push(board, parsed.move),
                                      request.move, current_time))

\* validate_and_make_move without the test "move not in board.legal_moves"
validate_and_make_move_no_legality(game_data, request, current_time) ==
    LET board == Board(game_data.fen)
        current_player == get_current_player(board, game_data.white, game_data.black)
        parsed == from_uci(request.move)
    IN  IF request.player # current_player THEN Raised("Not your turn", game_data)
        ELSE IF ~parsed.ok
        THEN IF Contains(InvalidMoveText, parsed.message)
             THEN Raised("Invalid move", game_data)
             ELSE Raised("Invalid move format", game_data)
        ELSE Returned(UpdatedGameData(game_data, push(board, parsed.move),
                                      request.move, current_time))

\* validate_and_make_move: the updated record, or the text of the ValueError
validate_and_make_move(game_data, request, current_time) ==
    LET board == Board(game_data.fen)
        current_player == get_current_player(board, game_data.white, game_data.black)
        parsed == from_uci(request.move)
        \* str(e) of the ValueError caught at line 107
        caught == IF ~parsed.ok THEN parsed.message ELSE InvalidMoveText
    IN  IF request.player # current_player THEN Raised("Not your turn", game_data)
        ELSE IF ~parsed.ok \/ ~is_legal(board, parsed.move)
        THEN IF Contains(InvalidMoveText, caught)
             THEN Raised("Invalid move", game_data)
             ELSE Raised("Invalid move format", game_data)
        ELSE Returned(UpdatedGameData(game_data, push(board, parsed.move),
                                      request.move, current_time))

(***************************************************************************)
(* main.py: the same transition, written inline in make_move               *)
(***************************************************************************)
\* make_move without the turn check of lines 175-177
main_make_move_any_player(game_data, request, current_time) ==
    LET board == Board(game_data.fen)
        parsed == from_uci(request.move)
    IN  IF ~parsed.ok THEN Raised("Invalid move format", game_data)
        ELSE IF ~is_legal(board, parsed.move) THEN Raised("Invalid move", game_data)
        ELSE Returned(UpdatedGameData(game_data, push(board, parsed.move),
                                      request.move, current_time))

\* make_move lines 172-193: HTTPException is not a ValueError, so the
\* "Invalid move" of line 183 passes the except clause of line 186
main_make_move(game_data, request, current_time) ==
    LET board == Board(game_data.fen)
        current_player == get_current_player(board, game_data.white, game_data.black)
        parsed == from_uci(request.move)
    IN  IF request.player # current_player THEN Raised("Not your turn", game_data)
        ELSE IF ~parsed.ok THEN Raised("Invalid move format", game_data)
        ELSE IF ~is_legal(board, parsed.move) THEN Raised("Invalid move", game_data)
        ELSE Returned(UpdatedGameData(game_data, push(board, parsed.move),
                                      request.move, current_time))

(***************************************************************************)
(* Requests.  Players are the two bots of the tests and a stranger; move   *)
(* strings are the next moves of a few known games (the position after n   *)
(* accepted moves is offered move n+1 of each line of the book) and a few  *)
(* strings no position accepts.                                            *)
(***************************************************************************)
Names == {"jarvis", "gromozeka"}
Stranger == "hal"
Players == Names \cup {Stranger}

\* 1. e4 e5, the moves of the tests
TestLine ==
    <<<<"e", "2", "e", "4">>,
      <<"e", "7", "e", "5">>>>

\* 1. f3 e5 2. g4 Qh4#
FoolsMate ==
    <<<<"f", "2", "f", "3">>,
      <<"e", "7", "e", "5">>,
      <<"g", "2", "g", "4">>,
      <<"d", "8", "h", "4">>>>

\* 1. e3 a5 2. Qh5 Ra6 3. Qxa5 h5 4. h4 Rah6 5. Qxc7 f6 6. Qxd7+ Kf7
\* 7. Qxb7 Qd3 8. Qxb8 Qh7 9. Qxc8 Kg6 10. Qe6 stalemate
LoydStalemate ==
    <<<<"e", "2", "e", "3">>,
      <<"a", "7", "a", "5">>,
      <<"d", "1", "h", "5">>,
      <<"a", "8", "a", "6">>,
      <<"h", "5", "a", "5">>,
      <<"h", "7", "h", "5">>,
      <<"h", "2", "h", "4">>,
      <<"a", "6", "h", "6">>,
      <<"a", "5", "c", "7">>,
      <<"f", "7", "f", "6">>,
      <<"c", "7", "d", "7">>,
      <<"e", "8", "f", "7">>,
      <<"d", "7", "b", "7">>,
      <<"d", "8", "d", "3">>,
      <<"b", "7", "b", "8">>,
      <<"d", "3", "h", "7">>,
      <<"b", "8", "c", "8">>,
      <<"f", "7", "g", "6">>,
      <<"c", "8", "e", "6">>>>

\* Ng1-f3 Ng8-f6 Nf3-g1 Nf6-g8, over and over
KnightCycle ==
    <<<<"g", "1", "f", "3">>,
      <<"g", "8", "f", "6">>,
      <<"f", "3", "g", "1">>,
      <<"f", "6", "g", "8">>>>

Shuffle(n) == [i \in 1..n |-> KnightCycle[((i - 1) % 4) + 1]]

\* the knights shuffle until the halfmove clock reaches the seventy-five-move
\* count; then White pushes a pawn, or shuffles on
ShuffleThenPawn == Append(Shuffle(SeventyFiveMoves), <<"e", "2", "e", "4">>)
ShuffleOn == Shuffle(SeventyFiveMoves + 2)

IllegalPawnMove == <<"e", "2", "e", "5">>
NullMove == <<"0", "0", "0", "0">>
OffBoard == <<"e", "2", "e", "9">>
TooShort == <<"e", "2">>
Echo == InvalidMoveText

\* the most games one store holds
MaxGames == 2

AllPairs == Names \X Names

\* one book per kind of run: the requests of the tests with every probe, the
\* three games that end (mate, stalemate, the seventy-five-move count), the
\* two moves of the tests sent by racing clients, games whose requests may
\* end between the two Redis writes, and several games side by side
Books ==
    [tests |-> [lines |-> {TestLine},
                probes |-> {IllegalPawnMove, NullMove, OffBoard, TooShort, Echo},
                pairs |-> AllPairs,
                games |-> 1],
     mate |-> [lines |-> {FoolsMate},
               probes |-> {IllegalPawnMove, TooShort},
               pairs |-> {<<"jarvis", "gromozeka">>},
               games |-> 1],
     stalemate |-> [lines |-> {LoydStalemate},
                    probes |-> {IllegalPawnMove, TooShort},
                    pairs |-> {<<"jarvis", "gromozeka">>},
                    games |-> 1],
     marathon |-> [lines |-> {ShuffleThenPawn, ShuffleOn},
                   probes |-> {},
                   pairs |-> {<<"jarvis", "gromozeka">>},
                   games |-> 1],
     race |-> [lines |-> {TestLine},
               probes |-> {},
               pairs |-> {<<"jarvis", "gromozeka">>},
               games |-> 1],
     crash |-> [lines |-> {SubSeq(TestLine, 1, 1)},
                probes |-> {},
                pairs |-> {<<"jarvis", "gromozeka">>},
                games |-> 1],
     many |-> [lines |-> {SubSeq(TestLine, 1, 1)},
               probes |-> {},
               pairs |-> {<<"gromozeka", "jarvis">>},
               games |-> MaxGames]]

BookNames == {"tests", "mate", "stalemate", "marathon", "race", "crash", "many"}

\* the move strings a client sends to a game that has n accepted moves
Vocabulary(book, n) ==
    {l[n + 1] : l \in {x \in Books[book].lines : Len(x) > n}} \cup Books[book].probes

(***************************************************************************)
(* State                                                                   *)
(***************************************************************************)
VARIABLES
    backend,    \* "fs": main.py over JSON files; "kv": api/index.py over Redis
    redis,      \* index.py's client: FALSE when Redis.from_env() left it None
    book,       \* the book the clients of this run play from
    docs,       \* the stored documents: <id>.json files, or the game:<id> keys
    index,      \* the Redis set games:all
    created,    \* how many ids uuid4 has handed out
    now,        \* the last reading of datetime.utcnow()
    last,       \* the last request answered, with its response
    accepted,   \* per id, how many move requests have been answered 200
    pending     \* the requests being handled, one per worker process

vars == <<backend, redis, book, docs, index, created, now, last, accepted, pending>>

\* the most requests handled at the same time
MaxInFlight == 2

Workers == 1..MaxInFlight

Idle == [pc |-> "idle", op |-> "none", game_id |-> 0, player |-> "", move |-> <<>>,
         game_data |-> <<>>, body |-> <<>>]

GameIds == 1..MaxGames

NoRequest ==
    [op |-> "none", game_id |-> 0, player |-> "", move |-> <<>>,
     code |-> 0, detail |-> "", pre |-> <<>>, body |-> <<>>]

Init ==
    /\ backend \in {"fs", "kv"}
    /\ redis = TRUE
    /\ book \in BookNames
    /\ docs = <<>>
    /\ index = {}
    /\ created = 0
    /\ now = 0
    /\ last = NoRequest
    /\ accepted = [g \in GameIds |-> 0]
    /\ pending = [w \in Workers |-> Idle]

(***************************************************************************)
(* The stores.  A document is the JSON text of a record: its members, name *)
(* and value, in the order the dict was built.                             *)
(***************************************************************************)
Members == <<"id", "white", "black", "fen", "moves", "status", "created_at", "updated_at">>

\* json.dumps with the moves member written as an empty list
json_dumps_no_moves(game_data) ==
    [i \in 1..Len(Members) |->
        <<Members[i], IF Members[i] = "moves" THEN <<>> ELSE game_data[Members[i]]>>]

\* json.dumps(game_data), and json.dump(game_data, f, indent=2)
json_dumps(game_data) ==
    [i \in 1..Len(Members) |-> <<Members[i], game_data[Members[i]]>>]

\* the value of the member called name
Member(text, name) == text[CHOOSE i \in DOMAIN text : text[i][1] = name][2]

\* json.loads(data), and json.load(f)
json_loads(text) ==
    [id |-> Member(text, "id"),
     white |-> Member(text, "white"),
     black |-> Member(text, "black"),
     fen |-> Member(text, "fen"),
     moves |-> Member(text, "moves"),
     status |-> Member(text, "status"),
     created_at |-> Member(text, "created_at"),
     updated_at |-> Member(text, "updated_at")]

\* a write that leaves an existing document alone
Put_if_absent(d, game_data) ==
    [i \in DOMAIN d \cup {game_data.id} |->
        IF i \in DOMAIN d THEN d[i] ELSE json_dumps(game_data)]

\* a write that never reaches the store
Put_lost(d, game_data) == d

\* a write that leaves the store holding the one document
Put_alone(d, game_data) == [i \in {game_data.id} |-> json_dumps(game_data)]

\* a write that puts the document under every key of the store
Put_everywhere(d, game_data) ==
    [i \in DOMAIN d \cup {game_data.id} |-> json_dumps(game_data)]

\* the document put under the key of game_data.id
Put(d, game_data) ==
    [i \in DOMAIN d \cup {game_data.id} |->
        IF i = game_data.id THEN json_dumps(game_data) ELSE d[i]]

\* load_game that makes up a new game for an id it does not find
load_game_or_new(d, game_id) ==
    IF game_id \in DOMAIN d THEN <<json_loads(d[game_id])>>
    ELSE <<[id |-> game_id, white |-> "jarvis", black |-> "gromozeka",
            fen |-> STARTING_FEN, moves |-> <<>>, status |-> "in_progress",
            created_at |-> 0, updated_at |-> 0]>>

\* load_game of both modules: the stored record, or None (the empty sequence)
load_game(d, game_id) ==
    IF game_id \in DOMAIN d THEN <<json_loads(d[game_id])>> ELSE <<>>

\* main.save_game: one file, written whole
fs_save_game(d, idx, game_data) == [docs |-> Put(d, game_data), index |-> idx]

\* index.save_game without the redis.sadd
kv_save_game_no_index(d, idx, game_data) == [docs |-> Put(d, game_data), index |-> idx]

\* index.save_game with the set games:all overwritten by the one id
kv_save_game_index_overwritten(d, idx, game_data) ==
    [docs |-> Put(d, game_data), index |-> {game_data.id}]

\* index.save_game: redis.set of the document, then redis.sadd of the id
kv_save_game(d, idx, game_data) ==
    [docs |-> Put(d, game_data), index |-> idx \cup {game_data.id}]

save_game(be, d, idx, game_data) ==
    IF be = "fs" THEN fs_save_game(d, idx, game_data)
    ELSE kv_save_game(d, idx, game_data)

\* a store that works without its client
RedisMissing_never(be, rd) == FALSE

\* "if redis is None" of index.py's three storage functions
RedisMissing(be, rd) == be = "kv" /\ ~rd

\* list_all_games that gives up, with no game, when a document is missing
list_all_games_all_or_nothing(be, d, idx) ==
    IF be = "fs" THEN {load_game(d, g)[1] : g \in DOMAIN d}
    ELSE IF \E i \in idx : load_game(d, i) = <<>> THEN {}
    ELSE {load_game(d, g)[1] : g \in idx}

\* main.list_games: every file of the directory; index.list_all_games: the
\* members of games:all that load_game finds.  The order is the store's, so
\* the records are a set.
list_all_games(be, d, idx) ==
    IF be = "fs" THEN {load_game(d, g)[1] : g \in DOMAIN d}
    ELSE {load_game(d, g)[1] : g \in {i \in idx : load_game(d, i) # <<>>}}

(***************************************************************************)
(* Responses                                                               *)
(***************************************************************************)
HTTPException(code, detail) == [code |-> code, detail |-> detail, body |-> <<>>]
Ok(body) == [code |-> 200, detail |-> "", body |-> <<body>>]

\* the RuntimeError of the storage functions reaches no handler of the app
ServerError == HTTPException(500, "Internal Server Error")

NewGameResponse(game_data, request) ==
    [game_id |-> game_data.id, white |-> request.white, black |-> request.black,
     status |-> "in_progress", current_player |-> request.white,
     fen |-> game_data.fen, moves |-> <<>>]

GameState(game_data) ==
    [id |-> game_data.id, white |-> game_data.white, black |-> game_data.black,
     fen |-> game_data.fen, moves |-> game_data.moves, status |-> game_data.status,
     current_player |-> get_current_player(Board(game_data.fen),
                                           game_data.white, game_data.black),
     created_at |-> game_data.created_at, updated_at |-> game_data.updated_at]

MoveResponse(game_data, request) ==
    [move |-> request.move, status |-> game_data.status,
     current_player |-> get_current_player(Board(game_data.fen),
                                           game_data.white, game_data.black),
     moves |-> game_data.moves, fen |-> game_data.fen]

GameSummary(game_data) ==
    [id |-> game_data.id, white |-> game_data.white, black |-> game_data.black,
     status |-> game_data.status, created_at |-> game_data.created_at]

GamesListResponse(games) == [games |-> games]

\* str(board): the eight ranks from the eighth down, a symbol or "." a square
board_str(board) ==
    [r \in 1..8 |-> [f \in 1..8 |-> board.pieces[square(f - 1, 8 - r)]]]

\* the transition of the backend: main.py has its own copy
Transition(be, game_data, request, current_time) ==
    IF be = "fs" THEN main_make_move(game_data, request, current_time)
    ELSE validate_and_make_move(game_data, request, current_time)

(***************************************************************************)
(* Endpoints.  Each operator gives the response and the store the handler  *)
(* leaves behind; ts is the clock reading before the request.              *)
(***************************************************************************)
Outcome(resp, d, idx, ts) == [resp |-> resp, docs |-> d, index |-> idx, now |-> ts]

\* POST /game/new (create_new_game of both modules): the record is built,
\* with its uuid and its clock reading, before save_game is called
CreateOutcome(be, rd, d, idx, ts, game_id, request) ==
    LET game_data == create_game_data(request, game_id, ts + 1)
        saved == save_game(be, d, idx, game_data)
    IN  IF RedisMissing(be, rd) THEN Outcome(ServerError, d, idx, ts + 1)
        ELSE Outcome(Ok(NewGameResponse(game_data, request)),
                     saved.docs, saved.index, ts + 1)

\* get_game_state that saves the record again, stamped with the time it was read
GetOutcome_stamps(be, rd, d, idx, ts, game_id) ==
    LET game_data == load_game(d, game_id)
        saved == save_game(be, d, idx, [game_data[1] EXCEPT !.updated_at = ts + 1])
    IN  IF RedisMissing(be, rd) THEN Outcome(ServerError, d, idx, ts)
        ELSE IF game_data = <<>>
        THEN Outcome(HTTPException(404, "Game not found"), d, idx, ts)
        ELSE Outcome(Ok(GameState(game_data[1])), saved.docs, saved.index, ts + 1)

\* GET /game/{game_id} (get_game_state of both modules)
GetOutcome(be, rd, d, idx, ts, game_id) ==
    LET game_data == load_game(d, game_id)
    IN  IF RedisMissing(be, rd) THEN Outcome(ServerError, d, idx, ts)
        ELSE IF game_data = <<>>
        THEN Outcome(HTTPException(404, "Game not found"), d, idx, ts)
        ELSE Outcome(Ok(GameState(game_data[1])), d, idx, ts)

\* make_move that saves the record it loaded, stamped, before it validates
MoveOutcome_save_first(be, rd, d, idx, ts, game_id, request) ==
    LET game_data == load_game(d, game_id)
        result == Transition(be, game_data[1], request, ts + 1)
        touched == save_game(be, d, idx, [game_data[1] EXCEPT !.updated_at = ts + 1])
        saved == save_game(be, d, idx, result.game_data)
    IN  IF RedisMissing(be, rd) THEN Outcome(ServerError, d, idx, ts)
        ELSE IF game_data = <<>>
        THEN Outcome(HTTPException(404, "Game not found"), d, idx, ts)
        ELSE IF ~result.ok
        THEN Outcome(HTTPException(400, result.detail), touched.docs, touched.index, ts + 1)
        ELSE Outcome(Ok(MoveResponse(result.game_data, request)),
                     saved.docs, saved.index, ts + 1)

\* POST /game/{game_id}/move (make_move of both modules)
MoveOutcome(be, rd, d, idx, ts, game_id, request) ==
    LET game_data == load_game(d, game_id)
        result == Transition(be, game_data[1], request, ts + 1)
        saved == save_game(be, d, idx, result.game_data)
    IN  IF RedisMissing(be, rd) THEN Outcome(ServerError, d, idx, ts)
        ELSE IF game_data = <<>>
        THEN Outcome(HTTPException(404, "Game not found"), d, idx, ts)
        ELSE IF ~result.ok
        THEN Outcome(HTTPException(400, result.detail), d, idx, ts)
        ELSE Outcome(Ok(MoveResponse(result.game_data, request)),
                     saved.docs, saved.index, ts + 1)

\* GET /game/{game_id}/board (get_board_ascii of both modules)
BoardOutcome(be, rd, d, idx, ts, game_id) ==
    LET game_data == load_game(d, game_id)
    IN  IF RedisMissing(be, rd) THEN Outcome(ServerError, d, idx, ts)
        ELSE IF game_data = <<>>
        THEN Outcome(HTTPException(404, "Game not found"), d, idx, ts)
        ELSE Outcome(Ok(board_str(Board(game_data[1].fen))), d, idx, ts)

\* GET /games (list_games of both modules)
ListOutcome(be, rd, d, idx, ts) ==
    IF RedisMissing(be, rd) THEN Outcome(ServerError, d, idx, ts)
    ELSE Outcome(Ok(GamesListResponse({GameSummary(game_data) :
                                          game_data \in list_all_games(be, d, idx)})),
                 d, idx, ts)

\* what the request finds stored under game_id
Found(game_id) ==
    IF RedisMissing(backend, redis) THEN <<>> ELSE load_game(docs, game_id)

\* the request as the last one answered
Answered(op, game_id, player, move, out) ==
    [op |-> op, game_id |-> game_id, player |-> player, move |-> move,
     code |-> out.resp.code, detail |-> out.resp.detail,
     pre |-> Found(game_id), body |-> out.resp.body]

create_new_game(white, black) ==
    /\ created < Books[book].games
    /\ <<white, black>> \in Books[book].pairs
    /\ \E out \in {CreateOutcome(backend, redis, docs, index, now, created + 1,
                                  [white |-> white, black |-> black])} :
           /\ docs' = out.docs
           /\ index' = out.index
           /\ now' = out.now
           /\ last' = Answered("new", created + 1, "", <<>>, out)
    /\ created' = created + 1
    /\ UNCHANGED <<backend, redis, book, accepted, pending>>

get_game_state(game_id) ==
    /\ \E out \in {GetOutcome(backend, redis, docs, index, now, game_id)} :
           /\ docs' = out.docs
           /\ index' = out.index
           /\ now' = out.now
           /\ last' = Answered("get", game_id, "", <<>>, out)
    /\ UNCHANGED <<backend, redis, book, created, accepted, pending>>

make_move(game_id, player, move) ==
    /\ \E out \in {MoveOutcome(backend, redis, docs, index, now, game_id,
                                [player |-> player, move |-> move])} :
           /\ docs' = out.docs
           /\ index' = out.index
           /\ now' = out.now
           /\ last' = Answered("move", game_id, player, move, out)
           /\ accepted' = IF out.resp.code = 200
                          THEN [accepted EXCEPT ![game_id] = @ + 1]
                          ELSE accepted
    /\ UNCHANGED <<backend, redis, book, created, pending>>

get_board_ascii(game_id) ==
    /\ \E out \in {BoardOutcome(backend, redis, docs, index, now, game_id)} :
           /\ docs' = out.docs
           /\ index' = out.index
           /\ now' = out.now
           /\ last' = Answered("board", game_id, "", <<>>, out)
    /\ UNCHANGED <<backend, redis, book, created, accepted, pending>>

list_games ==
    /\ \E out \in {ListOutcome(backend, redis, docs, index, now)} :
           /\ docs' = out.docs
           /\ index' = out.index
           /\ now' = out.now
           /\ last' = [NoRequest EXCEPT !.op = "list", !.code = out.resp.code,
                                        !.detail = out.resp.detail,
                                        !.body = out.resp.body]
    /\ UNCHANGED <<backend, redis, book, created, accepted, pending>>

\* the record stored under game_id
Record(game_id) == json_loads(docs[game_id])

\* the moves a client may send to game_id: none is held back because of
\* the game's status or of who is to move
Offered(game_id) ==
    IF game_id \in DOMAIN docs THEN Vocabulary(book, Len(Record(game_id).moves))
    ELSE Vocabulary(book, 0)

\* the ids the clients ask for: those of the book's games, and one that no
\* game ever gets
Asked == 1..(Books[book].games + 1)

Next ==
    \/ \E w \in Names, b \in Names : create_new_game(w, b)
    \/ \E g \in Asked : get_game_state(g)
    \/ \E g \in Asked, p \in Players : \E m \in Offered(g) : make_move(g, p, m)
    \/ \E g \in Asked : get_board_ascii(g)
    \/ list_games

Spec == Init /\ [][Next]_vars

(***************************************************************************)
(* api/index.py deployed without its two environment variables             *)
(***************************************************************************)
InitUnconfigured ==
    /\ backend = "kv"
    /\ redis = FALSE
    /\ book \in BookNames
    /\ docs = <<>>
    /\ index = {}
    /\ created = 0
    /\ now = 0
    /\ last = NoRequest
    /\ accepted = [g \in GameIds |-> 0]
    /\ pending = [w \in Workers |-> Idle]

SpecUnconfigured == InitUnconfigured /\ [][Next]_vars

(***************************************************************************)
(* The same endpoints handled by several processes over one store (the     *)
(* serverless deployment of api/index.py, or several servers of main.py):  *)
(* a move request is a read of the store, then the transition and the      *)
(* write; the Redis write is redis.set, then redis.sadd.  The store is      *)
(* configured in these runs.                                                *)
(***************************************************************************)
\* make_move up to "game_data = load_game(game_id)"
BeginMove(w, game_id, player, move) ==
    /\ pending[w].pc = "idle"
    /\ \E game_data \in {load_game(docs, game_id)} :
          IF game_data = <<>>
          THEN /\ last' = [op |-> "move", game_id |-> game_id, player |-> player,
                           move |-> move, code |-> 404, detail |-> "Game not found",
                           pre |-> <<>>, body |-> <<>>]
               /\ UNCHANGED pending
          ELSE /\ pending' = [pending EXCEPT ![w] =
                                 [Idle EXCEPT !.pc = "loaded", !.op = "move",
                                              !.game_id = game_id, !.player = player,
                                              !.move = move, !.game_data = game_data]]
               /\ UNCHANGED last
    /\ UNCHANGED <<backend, redis, book, docs, index, created, now, accepted>>

\* make_move from the transition to the write of the document
FinishMove(w) ==
    /\ pending[w].pc = "loaded"
    /\ \E result \in {Transition(backend, pending[w].game_data[1],
                                 [player |-> pending[w].player, move |-> pending[w].move],
                                 now + 1)} :
       LET asked == [op |-> "move", game_id |-> pending[w].game_id,
                     player |-> pending[w].player, move |-> pending[w].move,
                     code |-> 400, detail |-> result.detail,
                     pre |-> pending[w].game_data, body |-> <<>>]
           body == <<MoveResponse(result.game_data,
                                  [player |-> pending[w].player, move |-> pending[w].move])>>
       IN  IF ~result.ok
           THEN /\ last' = asked
                /\ pending' = [pending EXCEPT ![w] = Idle]
                /\ UNCHANGED <<docs, now, accepted>>
           ELSE /\ docs' = Put(docs, result.game_data)
                /\ now' = now + 1
                /\ IF backend = "fs"
                   THEN /\ last' = [asked EXCEPT !.code = 200, !.detail = "", !.body = body]
                        /\ accepted' = [accepted EXCEPT ![pending[w].game_id] = @ + 1]
                        /\ pending' = [pending EXCEPT ![w] = Idle]
                   ELSE /\ pending' = [pending EXCEPT ![w].pc = "sadd", ![w].body = body]
                        /\ UNCHANGED <<last, accepted>>
    /\ UNCHANGED <<backend, redis, book, index, created>>

\* create_new_game: the whole handler over files; up to redis.set over Redis
BeginCreate(w, white, black) ==
    /\ pending[w].pc = "idle"
    /\ created < Books[book].games
    /\ <<white, black>> \in Books[book].pairs
    /\ \E game_data \in {create_game_data([white |-> white, black |-> black],
                                          created + 1, now + 1)} :
       LET body == <<NewGameResponse(game_data, [white |-> white, black |-> black])>>
       IN  /\ docs' = Put(docs, game_data)
           /\ IF backend = "fs"
              THEN /\ last' = [NoRequest EXCEPT !.op = "new", !.game_id = game_data.id,
                                                !.code = 200, !.body = body]
                   /\ UNCHANGED pending
              ELSE /\ pending' = [pending EXCEPT ![w] =
                                     [Idle EXCEPT !.pc = "sadd", !.op = "new",
                                                  !.game_id = game_data.id,
                                                  !.body = body]]
                   /\ UNCHANGED last
    /\ created' = created + 1
    /\ now' = now + 1
    /\ UNCHANGED <<backend, redis, book, index, accepted>>

\* index.save_game line 516, redis.sadd, and the response
AddToIndex(w) ==
    /\ pending[w].pc = "sadd"
    /\ index' = index \cup {pending[w].game_id}
    /\ last' = [op |-> pending[w].op, game_id |-> pending[w].game_id,
                player |-> pending[w].player, move |-> pending[w].move,
                code |-> 200, detail |-> "",
                pre |-> pending[w].game_data, body |-> pending[w].body]
    /\ accepted' = IF pending[w].op = "move"
                   THEN [accepted EXCEPT ![pending[w].game_id] = @ + 1]
                   ELSE accepted
    /\ pending' = [pending EXCEPT ![w] = Idle]
    /\ UNCHANGED <<backend, redis, book, docs, created, now>>

InitRace == Init /\ book = "race"

\* the racing clients are the two players of the book's games
NextRace ==
    \/ \E w \in Workers, a \in Names, b \in Names : BeginCreate(w, a, b)
    \/ \E w \in Workers, g \in 1..Books[book].games, p \in Names :
          \E m \in Offered(g) : BeginMove(w, g, p, m)
    \/ \E w \in Workers : FinishMove(w)
    \/ \E w \in Workers : AddToIndex(w)

SpecRace == InitRace /\ [][NextRace]_vars

(***************************************************************************)
(* The Redis deployment when a request can end between its two writes: the *)
(* redis.sadd call raises (the service is a network call away), or the     *)
(* process is stopped there; the caller gets a server error or no answer.  *)
(***************************************************************************)
SaddFails(w) ==
    /\ pending[w].pc = "sadd"
    /\ last' = [op |-> pending[w].op, game_id |-> pending[w].game_id,
                player |-> pending[w].player, move |-> pending[w].move,
                code |-> ServerError.code, detail |-> ServerError.detail,
                pre |-> pending[w].game_data, body |-> <<>>]
    /\ pending' = [pending EXCEPT ![w] = Idle]
    /\ UNCHANGED <<backend, redis, book, docs, index, created, now, accepted>>

InitCrash == Init /\ book = "crash" /\ backend = "kv"

NextCrash ==
    \/ \E w \in Workers, a \in Names, b \in Names : BeginCreate(w, a, b)
    \/ \E w \in Workers, g \in 1..Books[book].games, p \in Names :
          \E m \in Offered(g) : BeginMove(w, g, p, m)
    \/ \E w \in Workers : FinishMove(w)
    \/ \E w \in Workers : AddToIndex(w)
    \/ \E w \in Workers : SaddFails(w)
    \/ list_games

SpecCrash == InitCrash /\ [][NextCrash]_vars

(***************************************************************************)
(* Vocabulary of the properties.  The expectations below read the record   *)
(* and the library directly, never through the handlers they judge.        *)
(***************************************************************************)
Terminal == {"checkmate", "stalemate", "draw"}

\* the last request was a move request to a game that exists
MoveAsked == last.op = "move" /\ last.pre # <<>>

Before == last.pre[1]
After == Record(last.game_id)
RecordUnchanged == After = Before

\* the identifier of the side to move, read from the turn field of the fen
ToMove(rec) == IF rec.fen.turn = "w" THEN rec.white ELSE rec.black
NotToMove(rec) == IF rec.fen.turn = "w" THEN rec.black ELSE rec.white

WellFormed(move) == from_uci(move).ok
Legal(rec, move) == WellFormed(move) /\ is_legal(Board(rec.fen), from_uci(move).move)

RuleDetails == {"Not your turn", "Invalid move", "Invalid move format"}

(***************************************************************************)
(* C1..C7, C9, C10: one request at a time                                  *)
(***************************************************************************)
\* C1 (as claimed): a move request to a game whose stored status is checkmate,
\* stalemate or draw is answered 400 with a game-over reason of its own, and
\* the stored record is the same in every field.
C1_TerminalLock ==
    (MoveAsked /\ Before.status \in Terminal) =>
        /\ last.code = 400
        /\ last.detail \notin RuleDetails
        /\ RecordUnchanged

\* C2 (as claimed): a stored status that has left in_progress never changes
\* again, whatever the step.
C2_StatusMonotonic ==
    [][\A g \in DOMAIN docs :
          Record(g).status \in Terminal => Record(g)'.status = Record(g).status]_vars

\* C3, first half: in a game in progress a legal move sent by the player to
\* move is accepted, and the response names the other side as current_player.
C3_Accepted ==
    (MoveAsked /\ Before.status = "in_progress"
               /\ last.player = ToMove(Before) /\ Legal(Before, last.move)) =>
        /\ last.code = 200
        /\ last.body[1].current_player = NotToMove(Before)

\* C3 (as claimed): ... and the same request sent with the player swapped,
\* that is by the identifier of the side not to move, fails with WrongTurn.
C3_SwappedFails ==
    C3_Accepted /\
    ((MoveAsked /\ Before.status = "in_progress" /\ last.player = NotToMove(Before)) =>
        last.code = 400 /\ last.detail = "Not your turn")

\* C3 (amended): the swapped request fails with WrongTurn when the game's
\* white and black identifiers differ; with equal identifiers it is accepted.
C3_TurnAlternation ==
    C3_Accepted /\
    ((MoveAsked /\ Before.status = "in_progress" /\ last.player = NotToMove(Before)) =>
        IF Before.white # Before.black
        THEN last.code = 400 /\ last.detail = "Not your turn" /\ RecordUnchanged
        ELSE Legal(Before, last.move) => last.code = 200)

C3_Witness ==
    /\ MoveAsked /\ Before.status = "in_progress" /\ Len(Before.moves) = 1
    /\ last.player = NotToMove(Before) /\ Before.white # Before.black
    /\ last.detail = "Not your turn"

\* C4: a move request to a game in progress by anyone but the player to move
\* is answered 400 "Not your turn" and the stored record keeps its fen, moves,
\* status and updated_at.
C4_WrongTurn ==
    (MoveAsked /\ Before.status = "in_progress" /\ last.player # ToMove(Before)) =>
        /\ last.code = 400
        /\ last.detail = "Not your turn"
        /\ After.fen = Before.fen /\ After.moves = Before.moves
        /\ After.status = Before.status /\ After.updated_at = Before.updated_at

C4_Witness ==
    /\ MoveAsked /\ Before.status = "in_progress"
    /\ last.player = Before.black /\ Before.fen.turn = "w" /\ Before.white # Before.black
    /\ Legal(Before, last.move)
    /\ last.code = 400

\* C5: a move request by the player to move whose string parses as coordinate
\* notation but is not legal in the position is answered 400 "Invalid move"
\* and the stored record is unchanged.
C5_IllegalMove ==
    (MoveAsked /\ last.player = ToMove(Before)
               /\ WellFormed(last.move) /\ ~Legal(Before, last.move)) =>
        /\ last.code = 400
        /\ last.detail = "Invalid move"
        /\ RecordUnchanged

C5_Witness ==
    /\ MoveAsked /\ last.player = ToMove(Before)
    /\ last.move = IllegalPawnMove /\ last.detail = "Invalid move"

\* C6 (as claimed): a move request by the player to move whose string does
\* not parse as coordinate notation is answered 400 "Invalid move format",
\* in both backends, and the stored record is unchanged.
C6_MalformedMove ==
    (MoveAsked /\ last.player = ToMove(Before) /\ ~WellFormed(last.move)) =>
        /\ last.code = 400
        /\ last.detail = "Invalid move format"
        /\ RecordUnchanged

C9_NewGame ==
    (last.op = "new") =>
        LET rec == After
            new == last.body[1]
            got == GetOutcome(backend, redis, docs, index, now, last.game_id).resp
        IN  /\ last.code = 200
            /\ rec.id = new.game_id /\ rec.white = new.white /\ rec.black = new.black
            /\ rec.status = "in_progress" /\ rec.moves = <<>> /\ rec.fen = STARTING_FEN
            /\ rec.created_at = rec.updated_at
            /\ new.current_player = new.white
            /\ new.status = "in_progress" /\ new.moves = <<>> /\ new.fen = STARTING_FEN
            /\ got.code = 200
            /\ got.body[1] = [id |-> rec.id, white |-> new.white, black |-> new.black,
                              fen |-> STARTING_FEN, moves |-> <<>>,
                              status |-> "in_progress", current_player |-> new.white,
                              created_at |-> rec.created_at,
                              updated_at |-> rec.created_at]

C9_Witness ==
    /\ last.op = "new" /\ last.body[1].white = "gromozeka" /\ last.body[1].black = "jarvis"
    /\ last.body[1].current_player = "gromozeka"

\* C10: a move request that passes the turn, format and legality checks stores
\* the fen of the position after the move, the old moves with the move string
\* appended, the status of the new position and a later updated_at, and the
\* response carries the same moves, fen and status.
C10_AcceptedMove ==
    (MoveAsked /\ last.player = ToMove(Before) /\ Legal(Before, last.move)) =>
        LET board == push(Board(Before.fen), from_uci(last.move).move)
        IN  /\ last.code = 200
            /\ After.fen = board_fen(board)
            /\ After.moves = Before.moves \o <<last.move>>
            /\ After.status = get_game_status(Board(After.fen))
            /\ After.updated_at = now /\ After.updated_at > Before.updated_at
            /\ After.id = Before.id /\ After.white = Before.white
            /\ After.black = Before.black /\ After.created_at = Before.created_at
            /\ last.body[1].moves = After.moves
            /\ last.body[1].fen = After.fen
            /\ last.body[1].status = After.status
            /\ last.body[1].move = last.move

C10_Witness ==
    /\ MoveAsked /\ last.code = 200
    /\ After.status = "checkmate" /\ Before.status = "in_progress"

(***************************************************************************)
(* C8: requests handled at the same time                                   *)
(***************************************************************************)
RECURSIVE Replay(_)
\* the board on which the moves are pushed one after the other, from the
\* starting position
Replay(moves) ==
    IF moves = <<>> THEN Board(STARTING_FEN)
    ELSE push(Replay(SubSeq(moves, 1, Len(moves) - 1)), from_uci(moves[Len(moves)]).move)

SelfConsistent(rec) ==
    /\ \A i \in 1..Len(rec.moves) :
          Legal([fen |-> board_fen(Replay(SubSeq(rec.moves, 1, i - 1)))], rec.moves[i])
    /\ rec.fen = board_fen(Replay(rec.moves))
    /\ rec.status = get_game_status(Board(rec.fen))

\* C8: in every state, also between the steps of requests handled at the same
\* time on one id, each stored record's moves are a legal game from the
\* starting position, its fen is the position that game reaches and its
\* status is the status of that fen.
C8_SelfConsistent == \A g \in DOMAIN docs : SelfConsistent(Record(g))

\* two accepted moves read the same record; the record holds the later one only
C8_Witness ==
    \E g \in DOMAIN docs :
        /\ Len(Record(g).moves) = 1
        /\ Record(g).updated_at = Record(g).created_at + 2
        /\ \E w \in Workers : pending[w].pc = "sadd" /\ pending[w].op = "move"

(***************************************************************************)
(* C11, C12: two requests on one id                                        *)
(***************************************************************************)
AllIdle == \A w \in Workers : pending[w].pc = "idle"

IsPrefix(s, t) == Len(s) <= Len(t) /\ SubSeq(t, 1, Len(s)) = s

\* C11: a move request that passes the checks against the record it read
\* stores that record with its own move appended, whatever another request
\* has stored on the id since the read, and is answered 200; so of two
\* requests that read the same record both succeed and the stored record
\* holds the move of the later write only.
C11_LostUpdate ==
    [][\A w \in Workers :
          /\ (pending[w].pc = "loaded" /\ pending'[w].pc # "loaded"
                /\ pending[w].player = ToMove(pending[w].game_data[1])
                /\ Legal(pending[w].game_data[1], pending[w].move)) =>
               LET read == pending[w].game_data[1]
                   board == push(Board(read.fen), from_uci(pending[w].move).move)
                   stored == json_loads(docs'[pending[w].game_id])
               IN  /\ stored.moves = read.moves \o <<pending[w].move>>
                   /\ stored.fen = board_fen(board)
                   /\ IF backend = "fs" THEN last'.code = 200 /\ last'.pre = <<read>>
                      ELSE pending'[w].pc = "sadd"
          /\ (pending[w].pc = "sadd" /\ pending'[w].pc = "idle") =>
               last'.code = 200 /\ last'.pre = pending[w].game_data]_vars

\* two requests read the new game, both were answered 200, one move is stored
C11_Witness ==
    \E g \in DOMAIN docs :
        /\ AllIdle
        /\ accepted[g] = 2
        /\ Len(Record(g).moves) = 1
        /\ now = Record(g).created_at + 2
        /\ last.op = "move" /\ last.code = 200 /\ last.pre[1].moves = <<>>

\* C12 (as claimed): at every step, also of requests handled at the same time,
\* the stored moves of an id keep the moves stored before as a prefix, and
\* once no request is being handled their number is the number of move
\* requests answered 200 for the id.
C12_AppendOnly ==
    [][\A g \in DOMAIN docs :
          /\ IsPrefix(Record(g).moves, Record(g)'.moves)
          /\ (\A w \in Workers : pending'[w].pc = "idle") =>
                Len(Record(g)'.moves) = accepted'[g]]_vars

(***************************************************************************)
(* C13: what is read back is what was written                              *)
(***************************************************************************)
\* the records the handlers would write in this state: a new game of each
\* pair of players, and each stored game after each legal move offered
Candidates ==
    {create_game_data([white |-> pair[1], black |-> pair[2]], created + 1, now + 1) :
        pair \in AllPairs}
    \cup
    UNION {{UpdatedGameData(Record(g),
                            push(Board(Record(g).fen), from_uci(m).move), m, now + 1) :
               m \in {x \in Offered(g) : Legal(Record(g), x)}} : g \in DOMAIN docs}

C14_IndexResolves ==
    /\ \A g \in index : load_game(docs, g) # <<>>
    /\ \A w \in Workers : pending[w].pc = "sadd" => pending[w].game_id \in DOMAIN docs

\* the game is indexed; a move on it ended between its two writes
C14_Witness ==
    /\ AllIdle
    /\ index # {}
    /\ last.op = "move" /\ last.code = 500
    /\ Len(Record(last.game_id).moves) = 1

\* C18 (as claimed): a create or move request that reports an error has not
\* written the stored record of its id; the one exception is a request whose
\* document is stored while its id is missing from the index.
C18_NoPartialSuccess ==
    [][\A w \in Workers :
          (pending[w].pc # "idle" /\ pending'[w].pc = "idle" /\ last'.code # 200) =>
              \/ pending[w].pc = "loaded" /\ UNCHANGED docs
              \/ pending[w].game_id \notin index']_vars

(***************************************************************************)
(* C15, C16, C19, C20: one request at a time                               *)
(***************************************************************************)
\* C15: in every state of a run of create and move requests, the list
\* request returns one summary for each id created so far and no other, with
\* the white, black, created_at and status now stored for the id; before any
\* create it returns none.
C15_Enumeration ==
    LET games == ListOutcome(backend, redis, docs, index, now).resp.body[1].games
    IN  /\ Cardinality(games) = created
        /\ games = {[id |-> g, white |-> Record(g).white, black |-> Record(g).black,
                     status |-> Record(g).status, created_at |-> Record(g).created_at] :
                       g \in 1..created}
        /\ last.op = "list" => last.code = 200 /\ last.body[1].games = games

C15_Witness ==
    /\ last.op = "list" /\ backend = "kv"
    /\ Cardinality(last.body[1].games) = 2
    /\ \E g \in DOMAIN docs : Len(Record(g).moves) = 1

\* C16: a fetch, a board request or a move request for an id with no stored
\* record is answered 404 "Game not found", whoever sends it and whatever
\* the move string, and the documents and the index stay as they were.
C16_NotFound ==
    [][(last'.op \in {"get", "board", "move"} /\ last'.game_id \notin DOMAIN docs) =>
          /\ last'.code = 404 /\ last'.detail = "Game not found"
          /\ UNCHANGED <<docs, index>>]_vars

C16_Witness ==
    /\ last.op = "move" /\ last.code = 404
    /\ last.player = Stranger /\ last.move = Echo
    /\ docs # <<>> /\ last.game_id \notin DOMAIN docs

\* C19: no step changes the id, white, black or created_at stored for an id,
\* and no step removes a stored record.
C19_ImmutableFields ==
    [][\A g \in DOMAIN docs :
          /\ g \in DOMAIN docs'
          /\ Record(g).id = g /\ Record(g)'.id = g
          /\ Record(g)'.white = Record(g).white
          /\ Record(g)'.black = Record(g).black
          /\ Record(g)'.created_at = Record(g).created_at]_vars

C19_Witness ==
    /\ MoveAsked /\ last.code = 400
    /\ Len(After.moves) = 2 /\ After.updated_at > After.created_at

\* C20 (as claimed): on the same stored records every request gets the same
\* response from main.py and from api/index.py, and the two leave the same
\* records stored.
C20_BackendEquivalence ==
    LET Same(a, b) == a.resp = b.resp /\ a.docs = b.docs
        ids == DOMAIN docs
    IN  /\ \A g \in Asked :
              /\ Same(GetOutcome("fs", TRUE, docs, {}, now, g),
                      GetOutcome("kv", TRUE, docs, ids, now, g))
              /\ Same(BoardOutcome("fs", TRUE, docs, {}, now, g),
                      BoardOutcome("kv", TRUE, docs, ids, now, g))
              /\ \A p \in Players : \A m \in Offered(g) :
                    Same(MoveOutcome("fs", TRUE, docs, {}, now, g,
                                     [player |-> p, move |-> m]),
                         MoveOutcome("kv", TRUE, docs, ids, now, g,
                                     [player |-> p, move |-> m]))
        /\ Same(ListOutcome("fs", TRUE, docs, {}, now),
                ListOutcome("kv", TRUE, docs, ids, now))
        /\ \A pair \in AllPairs :
              Same(CreateOutcome("fs", TRUE, docs, {}, now, created + 1,
                                 [white |-> pair[1], black |-> pair[2]]),
                   CreateOutcome("kv", TRUE, docs, ids, now, created + 1,
                                 [white |-> pair[1], black |-> pair[2]]))

(***************************************************************************)
(* C17: the store without its configuration                                *)
(***************************************************************************)
\* C17: with the Redis client missing every request that uses the store is
\* answered with a server error, and no document and no index entry exists
\* in any state.
C17_FailFast ==
    /\ last.op # "none" => last.code = 500
    /\ docs = <<>>
    /\ index = {}
    /\ \A g \in Asked :
          /\ GetOutcome(backend, redis, docs, index, now, g).resp.code = 500
          /\ BoardOutcome(backend, redis, docs, index, now, g).resp.code = 500
    /\ ListOutcome(backend, redis, docs, index, now).resp.code = 500

C17_Witness ==
    /\ redis = FALSE
    /\ last.op = "new" /\ last.code = 500
    /\ created = 1


(***************************************************************************)
(* C21: the status of a game and its history                               *)
(***************************************************************************)
\* the status the rules give the game played by moves: the board has the
\* whole game on its stack, as a board has on which the moves were pushed
HistoryStatus(moves) ==
    IF is_checkmate(Replay(moves)) THEN "checkmate"
    ELSE IF is_stalemate(Replay(moves)) THEN "stalemate"
    ELSE IF \/ is_insufficient_material(Replay(moves))
            \/ is_fivefold_repetition(Replay(moves))
            \/ is_seventyfive_moves(Replay(moves))
    THEN "draw"
    ELSE "in_progress"

\* C21 (as claimed): after an accepted move the stored status is checkmate or
\* stalemate when the position is, draw when the position has insufficient
\* material or the moves of the game make the five-fold repetition rule or
\* the seventy-five-move rule apply, and in_progress otherwise.
C21_DrawDetection ==
    (last.op = "move" /\ last.code = 200) => After.status = HistoryStatus(After.moves)


(***************************************************************************)
(* C22, C23: the ids a store holds                                         *)
(***************************************************************************)
\* the ids the list request enumerates: the file names of the games
\* directory, or the members of the set games:all
Enumerable == IF backend = "fs" THEN DOMAIN docs ELSE index

\* C22: every id that was put (by the create request, and again by each
\* accepted move) is enumerable, as one entry however often it was put, and
\* the list response holds one summary an id, never two for one game.
C22_IndexIdempotent ==
    /\ Enumerable = 1..created
    /\ Cardinality(Enumerable) = created
    /\ (last.op = "list" /\ last.code = 200) =>
          /\ Cardinality(last.body[1].games) = created
          /\ \A g \in 1..created :
                Cardinality({s \in last.body[1].games : s.id = g}) = 1

\* listed after a game was put three times: created, and moved twice
C22_Witness ==
    /\ last.op = "list" /\ last.code = 200 /\ backend = "kv"
    /\ \E g \in DOMAIN docs : accepted[g] >= 2


\* C23: no step removes a stored id, whatever the request and whatever the
\* status of the game, and a fetch of an id that is stored is answered 200
\* with the record of that id.
C23_NoDeletion ==
    [][/\ DOMAIN docs \subseteq DOMAIN docs'
       /\ \A g \in DOMAIN docs :
             (last'.op = "get" /\ last'.game_id = g) =>
                 /\ last'.code = 200
                 /\ last'.body[1].id = g
                 /\ last'.body[1].moves = json_loads(docs'[g]).moves]_vars

\* a game that has ended (checkmate, stalemate or draw) is fetched
C23_Witness ==
    /\ last.op = "get" /\ last.code = 200
    /\ last.body[1].status \in Terminal
    /\ Len(last.body[1].moves) > 0


(***************************************************************************)
(* C24..C27: the checks of a move request                                  *)
(***************************************************************************)
\* C24 (as claimed): the turn is checked first, then the format, then the
\* legality: a request by a player who is not to move is answered "Not your
\* turn" whatever its move string, malformed or illegal; a request by the
\* player to move with a string that does not parse is answered "Invalid
\* move format", the answer of the format check, never "Invalid move", the
\* answer of the legality check; only a string that parses is answered
\* "Invalid move" when it is not legal.
C24_ValidationOrder ==
    MoveAsked =>
        /\ last.player # ToMove(Before) =>
              last.code = 400 /\ last.detail = "Not your turn"
        /\ (last.player = ToMove(Before) /\ ~WellFormed(last.move)) =>
              last.code = 400 /\ last.detail = "Invalid move format"
        /\ (last.player = ToMove(Before) /\ last.detail = "Invalid move") =>
              WellFormed(last.move) /\ ~Legal(Before, last.move)


\* C25: a move request that is rejected, for whatever reason, leaves every
\* document and the index as they were; a move request that is accepted
\* passed every check against the record that was stored (the sender is to
\* move, the move is legal there), and it writes one document, that of its
\* id, holding one move more, and no other document and no new index entry.
C25_PersistAfterValidation ==
    [][last'.op = "move" =>
          IF last'.code = 200
          THEN /\ last'.game_id \in DOMAIN docs
               /\ last'.pre = <<json_loads(docs[last'.game_id])>>
               /\ last'.player = ToMove(last'.pre[1])
               /\ Legal(last'.pre[1], last'.move)
               /\ DOMAIN docs' = DOMAIN docs
               /\ \A g \in DOMAIN docs \ {last'.game_id} : docs'[g] = docs[g]
               /\ json_loads(docs'[last'.game_id]).moves =
                      Append(last'.pre[1].moves, last'.move)
               /\ accepted'[last'.game_id] = accepted[last'.game_id] + 1
               /\ index' = index
          ELSE docs' = docs /\ index' = index /\ accepted' = accepted]_vars

\* a rejected request and an accepted one have both been seen by a store
\* that holds two games
C25_Witness ==
    /\ MoveAsked /\ last.code = 400 /\ last.detail = "Not your turn"
    /\ Cardinality(DOMAIN docs) = 2
    /\ \E g \in DOMAIN docs : accepted[g] = 1


\* the position of the record is checkmate or stalemate
Locked(rec) == is_checkmate(Board(rec.fen)) \/ is_stalemate(Board(rec.fen))

\* C26 (as claimed): every move request to a game whose position is
\* checkmate or stalemate is answered 400 with "Not your turn" or "Invalid
\* move", and no step changes the record of such a game.
C26_TwoReasons ==
    /\ [](MoveAsked /\ Locked(Before) =>
             /\ last.code = 400
             /\ last.detail \in {"Not your turn", "Invalid move"}
             /\ RecordUnchanged)
    /\ [][\A g \in DOMAIN docs : docs'[g] # docs[g] => ~Locked(Record(g))]_vars

\* C26: every move request to a game whose position is checkmate or
\* stalemate is answered 400: "Not your turn" to a player who is not to
\* move, "Invalid move" to the player to move whose string parses, and
\* "Invalid move format" or "Invalid move" to the player to move whose
\* string does not parse; and no step changes the record of such a game.
C26_RulesLock ==
    /\ [](MoveAsked /\ Locked(Before) =>
             /\ last.code = 400
             /\ IF last.player # ToMove(Before) THEN last.detail = "Not your turn"
                ELSE IF WellFormed(last.move) THEN last.detail = "Invalid move"
                ELSE last.detail \in {"Invalid move format", "Invalid move"}
             /\ RecordUnchanged)
    /\ [][\A g \in DOMAIN docs : docs'[g] # docs[g] => ~Locked(Record(g))]_vars

\* the player to move of a stalemated game sends a move that parses
C26_Witness ==
    /\ MoveAsked /\ is_stalemate(Board(Before.fen))
    /\ last.player = ToMove(Before) /\ WellFormed(last.move)
    /\ last.code = 400 /\ last.detail = "Invalid move"


\* C27: a move request from a player who is neither the white nor the black
\* of the game is answered 400 "Not your turn", whatever the position, the
\* status and the move string, and the stored record is unchanged.
C27_NonParticipant ==
    (MoveAsked /\ last.player \notin {Before.white, Before.black}) =>
        /\ last.code = 400
        /\ last.detail = "Not your turn"
        /\ RecordUnchanged

\* a stranger sends the move that is legal in a game under way
C27_Witness ==
    /\ MoveAsked /\ last.player = Stranger
    /\ Len(Before.moves) > 0 /\ Legal(Before, last.move)
    /\ last.detail = "Not your turn"


(***************************************************************************)
(* C28: requests handled at the same time, each on an id of its own        *)
(***************************************************************************)
\* no request in flight on another worker is about game_id
Apart(w, game_id) ==
    \A v \in Workers \ {w} : pending[v].pc = "idle" \/ pending[v].game_id # game_id

InitApart == Init /\ book = "many"

NextApart ==
    \/ \E w \in Workers, a \in Names, b \in Names : BeginCreate(w, a, b)
    \/ \E w \in Workers, g \in 1..Books[book].games, p \in Names :
          \E m \in Offered(g) : Apart(w, g) /\ BeginMove(w, g, p, m)
    \/ \E w \in Workers : FinishMove(w)
    \/ \E w \in Workers : AddToIndex(w)

SpecApart == InitApart /\ [][NextApart]_vars

\* C28: when the requests in flight are about different ids, a step that
\* writes to the store writes the record of one id, the id of the request
\* that takes the step, and leaves every other record as it was; what it
\* writes is what the request writes when it is handled alone on the store
\* as it is: the new game of a create request, or the outcome of the move
\* request on the record now stored.
C28_Independent ==
    [][docs' # docs =>
          \E g \in DOMAIN docs' :
              /\ DOMAIN docs' = DOMAIN docs \cup {g}
              /\ \A h \in DOMAIN docs \ {g} : docs'[h] = docs[h]
              /\ \/ /\ g \notin DOMAIN docs
                    /\ \E a \in Names, b \in Names :
                          json_loads(docs'[g]) =
                              [id |-> g, white |-> a, black |-> b,
                               fen |-> STARTING_FEN, moves |-> <<>>,
                               status |-> "in_progress",
                               created_at |-> now + 1, updated_at |-> now + 1]
                 \/ /\ g \in DOMAIN docs
                    /\ \E w \in Workers :
                          /\ pending[w].pc = "loaded" /\ pending[w].game_id = g
                          /\ pending[w].game_data = <<json_loads(docs[g])>>
                          /\ docs'[g] =
                                 MoveOutcome(backend, redis, docs, index, now, g,
                                             [player |-> pending[w].player,
                                              move |-> pending[w].move]).docs[g]]_vars

\* the move of one game is written while a request about another game,
\* which began before, is still in flight
C28_Witness ==
    \E w \in Workers, v \in Workers :
        /\ pending[w].pc = "sadd" /\ pending[w].op = "move"
        /\ pending[v].pc = "loaded"
        /\ pending[v].game_id # pending[w].game_id


(***************************************************************************)
(* C29: the Redis deployment when a document can go while its id stays in  *)
(* games:all: the program deletes nothing, but the retention of the keys   *)
(* is the operator's (an expiry, an eviction, a key removed by hand).      *)
(***************************************************************************)
Expire(game_id) ==
    /\ game_id \in DOMAIN docs
    /\ docs' = [i \in DOMAIN docs \ {game_id} |-> docs[i]]
    /\ UNCHANGED <<backend, redis, book, index, created, now, last, accepted, pending>>

InitExpiry == Init /\ book = "many" /\ backend = "kv"

NextExpiry ==
    \/ \E w \in Names, b \in Names : create_new_game(w, b)
    \/ \E g \in Asked : get_game_state(g)
    \/ \E g \in Asked, p \in Players : \E m \in Offered(g) : make_move(g, p, m)
    \/ list_games
    \/ \E g \in GameIds : Expire(g)

SpecExpiry == InitExpiry /\ [][NextExpiry]_vars

\* the summaries of the members of games:all that have a document in d
Present(d, idx) ==
    {[id |-> g,
      white |-> Member(d[g], "white"),
      black |-> Member(d[g], "black"),
      status |-> Member(d[g], "status"),
      created_at |-> Member(d[g], "created_at")] : g \in idx \cap DOMAIN d}

\* C29: over Redis the list request is answered 200 with the summaries of
\* the members of games:all that have a document, one for each, and with
\* nothing for a member whose document is gone; it is so in every state of
\* the store, and of every list request that is answered.
C29_MissingTolerated ==
    /\ [](LET out == ListOutcome(backend, redis, docs, index, now)
          IN  /\ out.resp.code = 200
              /\ out.resp.body[1].games = Present(docs, index)
              /\ out.docs = docs /\ out.index = index)
    /\ [][(last'.op = "list" /\ docs' = docs) =>
              /\ last'.code = 200
              /\ last'.body[1].games = Present(docs, index)]_vars

\* listed when one indexed id has its document and another has none
C29_Witness ==
    /\ last.op = "list" /\ last.code = 200
    /\ Cardinality(index) = 2 /\ index \ DOMAIN docs # {}
    /\ Cardinality(last.body[1].games) = 1
    /\ \A s \in last.body[1].games : s.id \in DOMAIN docs


(***************************************************************************)
(* C30: the requests that only read                                        *)
(***************************************************************************)
\* C30: a fetch of a game, a fetch of its board and a list request, for an
\* id that is stored or one that is not, leave every document and the index
\* as they were, whatever they answer.
C30_ReadOnly ==
    [][last'.op \in {"get", "board", "list"} => docs' = docs /\ index' = index]_vars

\* the board of a game with a move made is fetched, and it shows the move
C30_Witness ==
    /\ last.op = "board" /\ last.code = 200
    /\ Len(Record(last.game_id).moves) > 0
    /\ last.body[1] = board_str(Board(Record(last.game_id).fen))
    /\ last.body[1] # board_str(Board(STARTING_FEN))

====
